---- MODULE Spec2Model ----
(***************************************************************************)
(* Model of labml_nn/transformers/switch/__init__.py:                      *)
(* SwitchFeedForward, the expert router of the Switch Transformer.         *)
(*                                                                         *)
(* Abstractions.  A token embedding is one symbolic integer (d_model is    *)
(* not modelled); the routing layer softmax(switch(x)) is an arbitrary     *)
(* probability vector per token, in integer units; an expert's FeedForward *)
(* is an uninterpreted function of (expert, input row), written            *)
(* <<"ffn", i, a>> (its dropout is not modelled); batches have batch size  *)
(* 0 or 1; capacity_factor is a rational with denominator CfDen            *)
(* and exact arithmetic (no floating-point rounding); torch's process-wide *)
(* random generator is a counter rng, and torch.randperm(k) is the         *)
(* permutation of 0..k-1 that the counter selects.  Token positions are    *)
(* 0-based as in the source; TLA+ sequences are 1-based, so position p of  *)
(* a tensor t is t[p + 1].                                                 *)
(*                                                                         *)
(* The module also models labml_nn/transformers/gpt/__init__.py: the mask  *)
(* cache of GPT.__call__ (specification SpecGPT) and transformer_optimizer *)
(* (specification SpecOpt).  Each specification moves the variables of its *)
(* own component and holds the others at their idle values.                *)
(***************************************************************************)
EXTENDS Integers, Sequences, FiniteSets, TLC

\* ------------------------------------------------------------------ bounds

\* Largest number of tokens (seq_len * bs) in one batch.
MaxTok == 3
\* Largest n_experts a router is constructed with (the smallest is -1).
MaxExperts == 2
\* Number of states of the random generator.
RngMod == 6
\* capacity_factor ranges over k / CfDen.
CfDen == 2
\* Longest input sequence given to the GPT model.
MaxSeqLen == 3
\* Number of GPT forward calls followed.
MaxCalls == 4
\* Largest number of modules in the model given to transformer_optimizer.
MaxModules == 3

\* Numerators of the capacity factors a router is constructed with:
\* negative, zero, below 1, 1, above 1.
CfNums == {-1, 0, 1, CfDen, CfDen + 1}

\* ----------------------------------------------------------------- helpers

Min(a, b) == IF a <= b THEN a ELSE b

Max(a, b) == IF a >= b THEN a ELSE b

RECURSIVE SumFirst(_, _)
SumFirst(s, k) == IF k = 0 THEN 0 ELSE SumFirst(s, k - 1) + s[k]

\* The sum of the entries of s.
SumSeq(s) == SumFirst(s, Len(s))

RECURSIVE ConcatFirst(_, _)
ConcatFirst(ss, k) == IF k = 0 THEN <<>> ELSE ConcatFirst(ss, k - 1) \o ss[k]

\* torch.cat of a list of 1-d tensors
Concat(ss) == ConcatFirst(ss, Len(ss))

RECURSIVE Factorial(_)
Factorial(k) == IF k <= 1 THEN 1 ELSE k * Factorial(k - 1)

\* s without its k-th element
RemoveAt(s, k) == SubSeq(s, 1, k - 1) \o SubSeq(s, k + 1, Len(s))

RECURSIVE NthPermutation(_, _)
\* The r-th permutation (lexicographic order of positions) of sequence s.
NthPermutation(s, r) ==
    IF s = <<>> THEN <<>>
    ELSE LET f == Factorial(Len(s) - 1)
             k == ((r % (f * Len(s))) \div f) + 1
         IN  <<s[k]>> \o NthPermutation(RemoveAt(s, k), r % f)

\* Mutant of PyInt: round(num / den), halves away from zero.
PyIntRound(num, den) ==
    IF num >= 0 THEN (2 * num + den) \div (2 * den)
    ELSE -((2 * (-num) + den) \div (2 * den))

\* Python's int(num / den) for den > 0: truncation toward zero.
PyInt(num, den) == IF num >= 0 THEN num \div den ELSE -((-num) \div den)

\* Python slice bound: a negative index counts from the end, then clamps.
SliceBound(len, c) == IF c < 0 THEN Max(len + c, 0) ELSE Min(c, len)

\* lst[:c]
PySliceTo(lst, c) == SubSeq(lst, 1, SliceBound(Len(lst), c))

\* lst[c:]
PySliceFrom(lst, c) == SubSeq(lst, SliceBound(Len(lst), c) + 1, Len(lst))

\* ------------------------------------------------------------------ state

VARIABLES
    capacity_factor,  \* self.capacity_factor, as a numerator over CfDen
    drop_tokens,      \* self.drop_tokens
    is_scale_prob,    \* self.is_scale_prob
    n_switches,       \* self.n_switches
    rng,              \* state of torch's process-wide random generator
    x,                \* the flattened input batch: tokens [v, route_prob]
    pc,               \* "ctor_raised" | "building" | "returned" | "raised"
    ret,              \* what the last call returned and did (a record)
    prev              \* <<>> or <<ret of the call before, on the same x>>

switchvars == <<capacity_factor, drop_tokens, is_scale_prob, n_switches,
                rng, x, pc, ret, prev>>

self == <<capacity_factor, drop_tokens, is_scale_prob, n_switches>>

\* ret before any call
NoCall == [called |-> FALSE]

VARIABLES
    mask,             \* GPT: self.mask, <<>> for None, else <<[size, id]>>
    gpt_x,            \* GPT: the argument x of the last call, a sequence of token ids
    gpt_ret,          \* GPT: what the last call did: lengths and the mask given to the encoder
    n_calls,          \* GPT: number of calls made
    n_masks           \* GPT: number of mask tensors subsequent_mask has created

gptvars == <<mask, gpt_x, gpt_ret, n_calls, n_masks>>

VARIABLES
    model,            \* optimizer: c.model, its modules in order of registration
    opt_pc,           \* optimizer: "idle" | "building" | "returned" | "ValueError" | "KeyError"
    decay,            \* optimizer: the set decay
    no_decay,         \* optimizer: the set no_decay
    opt_groups        \* optimizer: optimizer.parameters, <<>> until returned

optvars == <<model, opt_pc, decay, no_decay, opt_groups>>

vars == <<switchvars, gptvars, optvars>>

\* The switch router, not constructed.
SwitchIdle ==
    /\ capacity_factor = 0
    /\ drop_tokens = FALSE
    /\ is_scale_prob = FALSE
    /\ n_switches = -1
    /\ rng = 0
    /\ x = <<>>
    /\ pc = "ctor_raised"
    /\ ret = NoCall
    /\ prev = <<>>

\* The GPT model, not constructed.
GPTIdle ==
    /\ mask = <<>>
    /\ gpt_x = <<>>
    /\ gpt_ret = <<>>
    /\ n_calls = 0
    /\ n_masks = 0

\* No model configured, transformer_optimizer not called.
OptIdle ==
    /\ model = <<>>
    /\ opt_pc = "idle"
    /\ decay = {}
    /\ no_decay = {}
    /\ opt_groups = <<>>

\* --------------------------------------------------------- the routing layer

\* Units of a routing probability for n experts: entries sum to ProbUnit(n).
ProbUnit(n) == n + 2

\* The probability vectors softmax(switch(x)) yields for one token: all
\* entries positive, summing to one; one expert peaked, or the first two tied.
RouteProbs(n) ==
    IF n = 0 THEN {<<>>}
    ELSE {[i \in 1..n |-> IF i = e THEN 3 ELSE 1] : e \in 1..n}
         \cup (IF n >= 2 THEN {[i \in 1..n |-> IF i <= 2 THEN 2 ELSE 1]} ELSE {})

\* torch.max(route_prob, dim=-1): the maximum ...
RouteProbMax(p) == CHOOSE m \in {p[i] : i \in 1..Len(p)} :
                       \A i \in 1..Len(p) : p[i] <= m

\* ... and the index (0-based) of its first occurrence.
Routes(p) == (CHOOSE i \in 1..Len(p) :
                 /\ p[i] = RouteProbMax(p)
                 /\ \A j \in 1..(i - 1) : p[j] < p[i]) - 1

\* ---------------------------------------------- SwitchFeedForward.__call__

\* Token positions 0 .. len(x) - 1, in order.
Positions == [k \in 1..Len(x) |-> k - 1]

\* factor (lines 90-93), in units of 1 / ProbUnit(n_switches): the routing
\* probability itself, or route_prob_max / route_prob_max.detach() = 1.
Factor(p) ==
    IF is_scale_prob THEN RouteProbMax(p)
    ELSE (RouteProbMax(p) * ProbUnit(n_switches)) \div RouteProbMax(p)

\* x = x * factor.view(-1, 1) (line 94): the scaled row of position pos.
Scaled(pos) == x[pos + 1].v * Factor(x[pos + 1].route_prob)

\* indexes_list (line 97): for each expert the positions routed to it,
\* ascending (torch.eq(routes, i).nonzero()).
IndexesList ==
    [i \in 1..n_switches |->
        SelectSeq(Positions, LAMBDA pos : Routes(x[pos + 1].route_prob) = i - 1)]

\* capacity (line 103); evaluated only when n_switches # 0.
Capacity == PyInt(capacity_factor * Len(x), CfDen * n_switches)

\* Mutant of ZeroDivision: the capacity is computed per token, dividing by
\* len(x) as well.
ZeroDivisionOnEmpty == n_switches = 0 \/ Len(x) = 0

\* line 103 divides by self.n_switches: ZeroDivisionError.
ZeroDivision == n_switches = 0

\* Mutant of Counts: the counts are taken after the drop, capped at capacity.
CountsCapped(il) == [i \in 1..n_switches |-> Min(Len(il[i]), Max(Capacity, 0))]

\* counts (line 105)
Counts(il) == [i \in 1..n_switches |-> Len(il[i])]

\* Mutant of DroppedInit: the list is kept on the module and not reset, so a
\* call starts from what the call before dropped.
DroppedRetained == IF pc = "returned" THEN <<ret.dropped>> ELSE <<>>

\* dropped = [] (line 108)
DroppedInit == <<>>

\* Mutant of WithinCapacity: off by one.
WithinCapacityLax(len, capacity) == len <= capacity + 1

\* line 111: the expert is within capacity, nothing to drop.
WithinCapacity(len, capacity) == len <= capacity

\* torch.randperm(k) drawn in generator state r.
RandPerm(k, r) == NthPermutation([j \in 1..k |-> j - 1], r)

\* The generator after one draw.
NextRng(r) == (r + 1) % RngMod

\* t[perm]: gather by a 0-based index tensor.
Gather(t, perm) == [k \in 1..Len(perm) |-> t[perm[k] + 1]]

\* Mutant of Kept: one index too many is kept.
KeptOffByOne(shuffled, capacity) == PySliceTo(shuffled, capacity + 1)

\* indexes_list[i][:capacity] (line 115)
Kept(shuffled, capacity) == PySliceTo(shuffled, capacity)

\* Mutant of Overflow: the first index over capacity is forgotten.
OverflowSkipsOne(shuffled, capacity) == PySliceFrom(shuffled, capacity + 1)

\* indexes_list[i][capacity:] (line 114)
Overflow(shuffled, capacity) == PySliceFrom(shuffled, capacity)

RECURSIVE DropLoop(_, _, _, _, _)
\* The loop of lines 110-115 from expert i on: [indexes_list, dropped, rng].
DropLoop(i, il, dropped, capacity, r) ==
    IF i > n_switches THEN [indexes_list |-> il, dropped |-> dropped, rng |-> r]
    ELSE IF WithinCapacity(Len(il[i]), capacity)
         THEN DropLoop(i + 1, il, dropped, capacity, r)
         ELSE LET shuffled == Gather(il[i], RandPerm(Len(il[i]), r))
              IN  DropLoop(i + 1,
                           [il EXCEPT ![i] = Kept(shuffled, capacity)],
                           Append(dropped, Overflow(shuffled, capacity)),
                           capacity, NextRng(r))

\* Mutant of DropTokens: self.drop_tokens is not consulted.
DropTokensAlways(il, capacity, r) == DropLoop(1, il, DroppedInit, capacity, r)

\* Lines 108-115: the loop runs only when self.drop_tokens.
DropTokens(il, capacity, r) ==
    IF drop_tokens THEN DropLoop(1, il, DroppedInit, capacity, r)
    ELSE [indexes_list |-> il, dropped |-> DroppedInit, rng |-> r]

\* self.experts[i](x[indexes_list[i], :]) (line 117), i 0-based: one output
\* row per input row, in the order of idx.
RouteOutput(i, idx) == [k \in 1..Len(idx) |-> <<"ffn", i, Scaled(idx[k])>>]

\* Mutant of PassThrough: the rows are copied from the input as it was
\* before line 94 scaled it.
PassThroughUnscaled(idx) ==
    [k \in 1..Len(idx) |-> <<"x", -1, x[idx[k] + 1].v * ProbUnit(n_switches)>>]

\* x[dropped, :] (line 126)
PassThrough(idx) == [k \in 1..Len(idx) |-> <<"x", -1, Scaled(idx[k])>>]

\* x.new_zeros(x.shape) (line 100), with the number of writes per position.
NewZeros == [out |-> [k \in 1..Len(x) |-> <<"zero", -1, 0>>],
             writes |-> [k \in 1..Len(x) |-> 0]]

RECURSIVE IndexPutFrom(_, _, _, _)
\* Rows k, k + 1, ... of vals written to positions idx[k], idx[k + 1], ...
IndexPutFrom(t, idx, vals, k) ==
    IF k > Len(idx) THEN t
    ELSE IndexPutFrom([out |-> [t.out EXCEPT ![idx[k] + 1] = vals[k]],
                       writes |-> [t.writes EXCEPT ![idx[k] + 1] = @ + 1]],
                      idx, vals, k + 1)

\* t[idx, :] = vals (lines 121, 126)
IndexPut(t, idx, vals) == IndexPutFrom(t, idx, vals, 1)

RECURSIVE AssignLoop(_, _, _)
\* The loop of lines 120-121 from expert i on.
AssignLoop(i, il, t) ==
    IF i > n_switches THEN t
    ELSE AssignLoop(i + 1, il, IndexPut(t, il[i], RouteOutput(i - 1, il[i])))

\* Lines 124-126: dropped rows are copied through.
PassDropped(dropped, t) ==
    IF dropped # <<>>
    THEN IndexPut(t, Concat(dropped), PassThrough(Concat(dropped)))
    ELSE t

\* len(dropped) (line 131): of the concatenated tensor, or of the empty list.
LenDropped(dropped) ==
    IF dropped # <<>> THEN Len(Concat(dropped)) ELSE Len(dropped)

\* route_prob.sum(0) (line 131)
RouteProbSum ==
    [i \in 1..n_switches |->
        SumSeq([k \in 1..Len(x) |-> x[k].route_prob[i]])]

\* The whole call on batch x of shape (seq_len, bs, d_model), the generator
\* in state r: what it returns (final_output, counts, route_prob_sum,
\* n_dropped) and what it did on the way.
Forward(seq_len, bs, r) ==
    LET capacity == Capacity
        d == DropTokens(IndexesList, capacity, r)
        t == PassDropped(d.dropped, AssignLoop(1, d.indexes_list, NewZeros))
    IN  [called |-> TRUE,
         rng0 |-> r,
         rng1 |-> d.rng,
         in_shape |-> <<seq_len, bs>>,
         out_shape |-> <<seq_len, bs>>,
         capacity |-> capacity,
         counts |-> Counts(IndexesList),
         indexes_list |-> d.indexes_list,
         dropped |-> Concat(d.dropped),
         final_output |-> t.out,
         writes |-> t.writes,
         route_prob_sum |-> RouteProbSum,
         n_dropped |-> LenDropped(d.dropped)]

\* ----------------------------------------------------------------- actions

\* SwitchFeedForward.__init__ (lines 53-81) stores its arguments unchecked;
\* nn.Linear(d_model, n_experts) raises for a negative n_experts.
Init ==
    /\ capacity_factor \in CfNums
    /\ drop_tokens \in BOOLEAN
    /\ is_scale_prob \in BOOLEAN
    /\ n_switches \in -1..MaxExperts
    /\ rng = 0
    /\ x = <<>>
    /\ pc = IF n_switches < 0 THEN "ctor_raised" ELSE "building"
    /\ ret = NoCall
    /\ prev = <<>>
    /\ GPTIdle
    /\ OptIdle

\* The caller adds one token to the batch: a fresh embedding and the routing
\* probabilities the switch layer gives it.
Feed(p) ==
    /\ pc = "building"
    /\ Len(x) < MaxTok
    /\ x' = Append(x, [v |-> Len(x) + 1, route_prob |-> p])
    /\ UNCHANGED <<self, rng, pc, ret, prev>>
    /\ UNCHANGED <<gptvars, optvars>>

\* torch.manual_seed(s)
Seed(s) ==
    /\ pc = "building"
    /\ rng # s
    /\ rng' = s
    /\ UNCHANGED <<self, x, pc, ret, prev>>
    /\ UNCHANGED <<gptvars, optvars>>

\* One call of the module on the batch, a tensor of shape
\* (seq_len, bs, d_model); batches of batch size 0 or 1 are modelled.
Call(seq_len, bs) ==
    /\ pc = "building"
    /\ seq_len * bs = Len(x)
    /\ prev' = <<>>
    /\ IF ZeroDivision
       THEN /\ pc' = "raised"
            /\ UNCHANGED <<rng, ret>>
       ELSE /\ pc' = "returned"
            /\ ret' = Forward(seq_len, bs, rng)
            /\ rng' = ret'.rng1
    /\ UNCHANGED <<self, x>>
    /\ UNCHANGED <<gptvars, optvars>>

\* A second call on the same batch, the generator left as the call before
\* left it.
CallAgain ==
    /\ pc = "returned"
    /\ prev' = <<ret>>
    /\ ret' = Forward(ret.in_shape[1], ret.in_shape[2], rng)
    /\ rng' = ret'.rng1
    /\ UNCHANGED <<self, x, pc>>
    /\ UNCHANGED <<gptvars, optvars>>

\* A second call on the same batch after the generator is seeded as it was
\* before the first.
ReseedAndCallAgain ==
    /\ pc = "returned"
    /\ prev' = <<ret>>
    /\ ret' = Forward(ret.in_shape[1], ret.in_shape[2], ret.rng0)
    /\ rng' = ret'.rng1
    /\ UNCHANGED <<self, x, pc>>
    /\ UNCHANGED <<gptvars, optvars>>

\* The caller turns to the next batch.
NewBatch ==
    /\ pc \in {"returned", "raised"}
    /\ x' = <<>>
    /\ pc' = "building"
    /\ ret' = NoCall
    /\ prev' = <<>>
    /\ UNCHANGED <<self, rng>>
    /\ UNCHANGED <<gptvars, optvars>>

Next ==
    \/ \E p \in RouteProbs(n_switches) : Feed(p)
    \/ \E s \in 0..(RngMod - 1) : Seed(s)
    \/ \E seq_len \in 0..MaxTok, bs \in {0, 1} : Call(seq_len, bs)
    \/ CallAgain
    \/ ReseedAndCallAgain
    \/ NewBatch

Spec == Init /\ [][Next]_vars

\* --------------------------------------------------------------------- GPT

\* Token ids of the inputs.
Vocab == {0, 1}

\* A GPT that creates its mask on the first call only.
NeedsNewMaskFirstCall(m, len) == m = <<>>

\* self.mask.size(0) != len(x), or no mask yet (line 66)
NeedsNewMask(m, len) == m = <<>> \/ m[1].size # len

\* subsequent_mask(len(x)).to(x.device) (line 68): a new tensor, the id-th one
\* created, of size len x len.
SubsequentMask(len, id) == <<[size |-> len, id |-> id]>>

\* GPT.__init__ (lines 48-61): the mask is None.
GPTInit ==
    /\ GPTIdle
    /\ SwitchIdle
    /\ OptIdle

\* GPT.__call__ (lines 63-78) on x, a tensor of len(x) positions: the mask is
\* created if needed, and the encoder is given self.mask.
GPTCall(tokens) ==
    /\ n_calls < MaxCalls
    /\ gpt_x' = tokens
    /\ n_calls' = n_calls + 1
    /\ IF NeedsNewMask(mask, Len(tokens))
       THEN /\ mask' = SubsequentMask(Len(tokens), n_masks + 1)
            /\ n_masks' = n_masks + 1
       ELSE UNCHANGED <<mask, n_masks>>
    /\ gpt_ret' = <<[len |-> Len(tokens),
                     prev_len |-> IF gpt_ret = <<>> THEN -1 ELSE gpt_ret[1].len,
                     mask_before |-> mask,
                     encoder_mask |-> mask']>>
    /\ UNCHANGED <<switchvars, optvars>>

\* Sequences over S of length at most n.
RECURSIVE SeqsUpTo(_, _)
SeqsUpTo(S, n) ==
    IF n = 0 THEN {<<>>}
    ELSE LET shorter == SeqsUpTo(S, n - 1)
         IN  shorter \cup {Append(t, e) : t \in shorter, e \in S}

GPTNext == \E tokens \in SeqsUpTo(Vocab, MaxSeqLen) : GPTCall(tokens)

SpecGPT == GPTInit /\ [][GPTNext]_vars

\* ------------------------------------------------- transformer_optimizer
\*
\* c.model is a sequence of modules in order of registration.  A module is
\* [parent, kind, params]: parent is the index of the module it is registered
\* in (0 for the model itself), kind its class, params its own parameters in
\* order, each [pn, obj] with obj the identity of the Parameter object.  Two
\* modules whose parameters have the same obj share that Parameter (tied
\* weights).  A dotted name is the sequence of its components.

\* Names of the modules, by index; the model itself has the empty name.
ModuleNames == <<"", "a", "b", "c", "d", "e">>

\* The modules a model is made of: class and own parameter names.
ModuleShapes ==
    { [kind |-> "Linear", params |-> <<"weight", "bias">>],
      [kind |-> "Linear", params |-> <<"weight">>],
      [kind |-> "LayerNorm", params |-> <<"weight", "bias">>],
      [kind |-> "Embedding", params |-> <<"weight">>],
      [kind |-> "Other", params |-> <<>>],
      [kind |-> "Other", params |-> <<"positional_encodings">>],
      [kind |-> "Other", params |-> <<"weight">>],
      [kind |-> "Other", params |-> <<"gain">>] }

\* Configs.weight_decay (line 89), in tenths.
weight_decay == 1

whitelist_weight_modules == {"Linear"}
blacklist_weight_modules == {"LayerNorm", "Embedding"}

\* The dotted name of module j, from the model.
RECURSIVE Path(_, _)
Path(mdl, j) ==
    IF mdl[j].parent = 0 THEN <<>>
    ELSE Path(mdl, mdl[j].parent) \o <<ModuleNames[j]>>

\* The name of module j relative to module i, one of its ancestors or itself.
RelPath(mdl, i, j) == SubSeq(Path(mdl, j), Len(Path(mdl, i)) + 1, Len(Path(mdl, j)))

\* m.named_modules(): module i and its descendants, each module before its
\* children, children in order of registration.
RECURSIVE NamedModules(_, _), ChildrenFrom(_, _, _)
NamedModules(mdl, i) == <<i>> \o ChildrenFrom(mdl, i, i + 1)
ChildrenFrom(mdl, i, j) ==
    IF j > Len(mdl) THEN <<>>
    ELSE (IF mdl[j].parent = i THEN NamedModules(mdl, j) ELSE <<>>)
         \o ChildrenFrom(mdl, i, j + 1)

\* Module j's own parameters, named relative to module i.
OwnParameters(mdl, i, j) ==
    [q \in 1..Len(mdl[j].params) |->
        [name |-> RelPath(mdl, i, j) \o <<mdl[j].params[q].pn>>,
         obj |-> mdl[j].params[q].obj]]

\* The parameters of the modules ms[k..], named relative to module i.
RECURSIVE MembersFrom(_, _, _, _)
MembersFrom(mdl, i, ms, k) ==
    IF k > Len(ms) THEN <<>>
    ELSE OwnParameters(mdl, i, ms[k]) \o MembersFrom(mdl, i, ms, k + 1)

\* torch's named_parameters() yields a Parameter object once, under the
\* first name it is met with.
RECURSIVE RemoveDuplicate(_, _, _)
RemoveDuplicate(members, k, memo) ==
    IF k > Len(members) THEN <<>>
    ELSE IF members[k].obj \in memo
         THEN RemoveDuplicate(members, k + 1, memo)
         ELSE <<members[k]>>
              \o RemoveDuplicate(members, k + 1, memo \cup {members[k].obj})

\* m.named_parameters() for module i (lines 135 and 152): recursive.
NamedParameters(mdl, i) ==
    RemoveDuplicate(MembersFrom(mdl, i, NamedModules(mdl, i), 1), 1, {})

\* fpn = f'{mn}.{pn}' if mn else pn (line 136)
FullParamName(mn, pn) == mn \o pn

\* fpn.find(s) != -1 and fpn.endswith(s), for names made of the components
\* used here, none of which is a proper part of another.
Find(fpn, str) == \E k \in 1..Len(fpn) : fpn[k] = str
EndsWith(fpn, str) == fpn # <<>> /\ fpn[Len(fpn)] = str

\* The names the inner loop (lines 135-149) meets in module i.
VisitsIn(mdl, i) ==
    LET ps == NamedParameters(mdl, i)
    IN  { [m |-> i, fpn |-> FullParamName(Path(mdl, i), ps[q].name)] :
            q \in 1..Len(ps) }

\* The names the loop of lines 134-149 meets, each with the module it is met in.
Visits(mdl) ==
    LET ms == NamedModules(mdl, 1)
    IN  UNION { VisitsIn(mdl, ms[k]) : k \in 1..Len(ms) }

\* decay after the loop (line 146)
Decay(mdl) ==
    { v.fpn : v \in { w \in Visits(mdl) :
        /\ ~Find(w.fpn, "positional_encodings")
        /\ ~EndsWith(w.fpn, "bias")
        /\ EndsWith(w.fpn, "weight")
        /\ mdl[w.m].kind \in whitelist_weight_modules } }

\* no_decay after the loop (lines 139, 142, 149)
NoDecay(mdl) ==
    { v.fpn : v \in { w \in Visits(mdl) :
        \/ Find(w.fpn, "positional_encodings")
        \/ EndsWith(w.fpn, "bias")
        \/ /\ EndsWith(w.fpn, "weight")
           /\ mdl[w.m].kind \notin whitelist_weight_modules
           /\ mdl[w.m].kind \in blacklist_weight_modules } }

\* param_dict (line 152): the Parameter object under each name of
\* c.model.named_parameters().
ParamDict(mdl) ==
    LET ps == NamedParameters(mdl, 1)
    IN  [pn \in {ps[q].name : q \in 1..Len(ps)} |->
            (CHOOSE q \in 1..Len(ps) : ps[q].name = pn)]

\* inter_params (line 154) and missing_params (line 158)
InterParams(d, nd) == d \cap nd
MissingParams(mdl, d, nd) == DOMAIN ParamDict(mdl) \ (d \cup nd)

\* [param_dict[pn] for pn in sorted(list(names))] (lines 164-165), as the set
\* of the Parameter objects; the order of the list is not modelled.
GroupParams(mdl, names) ==
    LET ps == NamedParameters(mdl, 1)
    IN  { ps[ParamDict(mdl)[pn]].obj : pn \in names }

\* How transformer_optimizer ends (lines 154-179): the ValueError of line 156
\* or 160, the KeyError of param_dict[pn] for a name that is not a key, or
\* the return.
Outcome(mdl) ==
    LET d == Decay(mdl)
        nd == NoDecay(mdl)
    IN  IF InterParams(d, nd) # {} THEN "ValueError"
        ELSE IF MissingParams(mdl, d, nd) # {} THEN "ValueError"
        ELSE IF ~((d \cup nd) \subseteq DOMAIN ParamDict(mdl)) THEN "KeyError"
        ELSE "returned"

\* opt_groups (lines 163-166)
OptGroups(mdl) ==
    << [params |-> GroupParams(mdl, Decay(mdl)), weight_decay |-> weight_decay],
       [params |-> GroupParams(mdl, NoDecay(mdl)), weight_decay |-> 0] >>

HasWeight(module) == \E q \in 1..Len(module.params) : module.params[q].pn = "weight"

\* The Parameter object that is the weight of module j.
WeightOf(mdl, j) ==
    mdl[j].params[CHOOSE q \in 1..Len(mdl[j].params) : mdl[j].params[q].pn = "weight"].obj

\* The last module registered so far that has a weight.
LastWithWeight(mdl) ==
    CHOOSE j \in 1..Len(mdl) :
        /\ HasWeight(mdl[j])
        /\ \A k \in (j + 1)..Len(mdl) : ~HasWeight(mdl[k])

\* A module of the given shape registered in module parent as the next
\* module of the model; its parameters are new objects, except that a tied
\* weight is the weight of the last module that has one.
NewModule(mdl, parent, shape, tied) ==
    [parent |-> parent,
     kind |-> shape.kind,
     params |-> [q \in 1..Len(shape.params) |->
                    [pn |-> shape.params[q],
                     obj |-> IF tied /\ shape.params[q] = "weight"
                             THEN WeightOf(mdl, LastWithWeight(mdl))
                             ELSE [m |-> Len(mdl) + 1, pn |-> shape.params[q]]]]]

\* The model is constructed: one module, not yet given to the optimizer.
OptInit ==
    /\ \E shape \in ModuleShapes : model = <<NewModule(<<>>, 0, shape, FALSE)>>
    /\ opt_pc = "building"
    /\ decay = {}
    /\ no_decay = {}
    /\ opt_groups = <<>>
    /\ SwitchIdle
    /\ GPTIdle

\* A submodule is registered in a module of the model.
AddModule(parent, shape, tied) ==
    /\ opt_pc = "building"
    /\ Len(model) < MaxModules
    /\ tied => \E j \in 1..Len(model) : HasWeight(model[j])
    /\ tied => \E q \in 1..Len(shape.params) : shape.params[q] = "weight"
    /\ model' = Append(model, NewModule(model, parent, shape, tied))
    /\ UNCHANGED <<opt_pc, decay, no_decay, opt_groups>>
    /\ UNCHANGED <<switchvars, gptvars>>

\* transformer_optimizer(c) (lines 127-179) on c.model
TransformerOptimizer ==
    /\ opt_pc = "building"
    /\ decay' = Decay(model)
    /\ no_decay' = NoDecay(model)
    /\ opt_pc' = Outcome(model)
    /\ opt_groups' = IF Outcome(model) = "returned" THEN OptGroups(model) ELSE <<>>
    /\ UNCHANGED model
    /\ UNCHANGED <<switchvars, gptvars>>

OptNext ==
    \/ \E parent \in 1..Len(model), shape \in ModuleShapes, tied \in BOOLEAN :
            AddModule(parent, shape, tied)
    \/ TransformerOptimizer

SpecOpt == OptInit /\ [][OptNext]_vars

\* ------------------------------------------------- what the claims refer to

\* The expert position pos is routed to: its top-1 (argmax) choice, 0-based.
AssignedExpert(pos) == Routes(x[pos + 1].route_prob)

\* The confidence-scaled input of position pos, stated from the input alone:
\* the embedding times its top routing probability when is_scale_prob,
\* times one otherwise (in units of 1 / ProbUnit).
ScaledInput(pos) ==
    LET p == x[pos + 1].route_prob
        top == CHOOSE m \in {p[i] : i \in 1..Len(p)} : \A i \in 1..Len(p) : p[i] <= m
    IN  x[pos + 1].v * (IF is_scale_prob THEN top ELSE ProbUnit(n_switches))

\* Number of positions routed to expert i (0-based), before any dropping.
RoutedTo(i) == Cardinality({pos \in 0..(Len(x) - 1) : AssignedExpert(pos) = i})

\* Number of entries of sequence s equal to e.
Occurrences(s, e) == Cardinality({k \in 1..Len(s) : s[k] = e})

\* The elements of sequence s.
Range(s) == {s[k] : k \in 1..Len(s)}

\* Number of dropped positions that were routed to expert i (0-based).
DroppedOf(i) ==
    Cardinality({k \in 1..Len(ret.dropped) : AssignedExpert(ret.dropped[k]) = i})

\* Number of rows expert i's (0-based) FFN was evaluated on in the last call.
Evaluated(i) == Len(ret.indexes_list[i + 1])

\* floor(capacity_factor * N_tok / n_experts), for n_experts > 0.
FloorCapacity == (capacity_factor * Len(x)) \div (CfDen * n_switches)

\* floor(|capacity_factor| * N_tok / n_experts), for n_experts > 0.
FloorDivNeg == ((-capacity_factor) * Len(x)) \div (CfDen * n_switches)

Experts == 0..(n_switches - 1)

\* ------------------------------------------------------------------ claims

\* C1: in every call, for any routing, any capacity_factor and either value
\* of drop_tokens, the kept index lists of the experts together with the
\* dropped list hold every position 0..N_tok-1 exactly once; every position of
\* the output buffer is written exactly once, by an expert output or by a
\* pass-through copy; and the kept counts plus n_dropped add up to N_tok.
C1_Partition ==
    pc = "returned" =>
        LET all == Concat(ret.indexes_list) \o ret.dropped
        IN  /\ Len(all) = Len(x)
            /\ \A pos \in 0..(Len(x) - 1) : Occurrences(all, pos) = 1
            /\ \A k \in 1..Len(x) :
                   /\ ret.writes[k] = 1
                   /\ ret.final_output[k][1] \in {"ffn", "x"}
                   /\ ret.final_output[k][1] = "ffn" =>
                          ret.final_output[k][2] = AssignedExpert(k - 1)
            /\ SumSeq([i \in 1..n_switches |-> Evaluated(i - 1)]) + ret.n_dropped
                   = Len(x)

\* C1's case: a call of three tokens that drops some and keeps some.
C1_Witness ==
    /\ pc = "returned"
    /\ Len(x) = 3
    /\ ret.capacity >= 1
    /\ ret.n_dropped >= 1
    /\ \E i \in Experts : Evaluated(i) >= 1

\* C2 as stated: with drop_tokens, capacity is floor(capacity_factor * N_tok /
\* n_experts) and no expert's FFN is evaluated on more than capacity tokens.
C2_Original ==
    (pc = "returned" /\ drop_tokens) =>
        /\ ret.capacity = FloorCapacity
        /\ \A i \in Experts : Evaluated(i) <= ret.capacity

\* C2 amended: with drop_tokens, the capacity of each call is capacity_factor *
\* N_tok / n_experts truncated toward zero, which is the floor when
\* capacity_factor >= 0; and whenever that capacity is not negative, no
\* expert's FFN is evaluated on more than capacity tokens.
C2_CapacityBound ==
    (pc = "returned" /\ drop_tokens) =>
        /\ capacity_factor >= 0 => ret.capacity = FloorCapacity
        /\ capacity_factor < 0 => ret.capacity = -FloorDivNeg
        /\ ret.capacity >= 0 => \A i \in Experts : Evaluated(i) <= ret.capacity

\* C2's case: an expert was routed more tokens than a positive capacity and
\* its FFN ran on exactly capacity of them.
C2_Witness ==
    /\ pc = "returned"
    /\ drop_tokens
    /\ ret.capacity >= 1
    /\ \E i \in Experts : RoutedTo(i) > ret.capacity /\ Evaluated(i) = ret.capacity

\* C3: without drop_tokens, for any input and any capacity_factor, n_dropped
\* is 0 and every token gets the output of the FFN of its argmax expert, also
\* when that expert is routed more tokens than capacity.
C3_NoDrop ==
    (pc = "returned" /\ ~drop_tokens) =>
        /\ ret.n_dropped = 0
        /\ ret.dropped = <<>>
        /\ \A i \in Experts : Evaluated(i) = RoutedTo(i)
        /\ \A pos \in 0..(Len(x) - 1) :
               /\ Occurrences(ret.indexes_list[AssignedExpert(pos) + 1], pos) = 1
               /\ ret.final_output[pos + 1]
                      = <<"ffn", AssignedExpert(pos), ScaledInput(pos)>>

\* C3's case: drop_tokens is off and an expert is routed more than capacity.
C3_Witness ==
    /\ pc = "returned"
    /\ ~drop_tokens
    /\ ret.capacity >= 1
    /\ \E i \in Experts : RoutedTo(i) > ret.capacity /\ Evaluated(i) = RoutedTo(i)

\* C4: counts[i] is the number of tokens whose top-1 choice is expert i,
\* measured before dropping; the counts sum to N_tok with or without
\* drop_tokens, whatever is dropped.
C4_Counts ==
    pc = "returned" =>
        /\ Len(ret.counts) = n_switches
        /\ \A i \in Experts : ret.counts[i + 1] = RoutedTo(i)
        /\ SumSeq(ret.counts) = Len(x)

\* C4's case: a call that dropped tokens, so that the experts ran on fewer
\* tokens than counts reports.
C4_Witness ==
    /\ pc = "returned"
    /\ ret.capacity >= 1
    /\ ret.n_dropped >= 1
    /\ \E i \in Experts : Evaluated(i) >= 1 /\ Evaluated(i) < ret.counts[i + 1]

\* What C5 says of a call, capacity being the call's capacity.
ExactExcess ==
    /\ \A i \in Experts :
           /\ DroppedOf(i) = Max(0, RoutedTo(i) - ret.capacity)
           /\ Evaluated(i) = Min(RoutedTo(i), ret.capacity)
           /\ Range(ret.indexes_list[i + 1])
                  \subseteq {pos \in 0..(Len(x) - 1) : AssignedExpert(pos) = i}
    /\ ret.n_dropped
           = SumSeq([i \in 1..n_switches |-> Max(0, RoutedTo(i - 1) - ret.capacity)])
    /\ (\A i \in Experts : RoutedTo(i) <= ret.capacity) =>
           /\ ret.n_dropped = 0
           /\ \A pos \in 0..(Len(x) - 1) :
                  ret.final_output[pos + 1]
                      = <<"ffn", AssignedExpert(pos), ScaledInput(pos)>>

\* C5 as stated: with drop_tokens exactly the excess is dropped, for every
\* capacity.
C5_Original == (pc = "returned" /\ drop_tokens) => ExactExcess

\* C5 amended: with drop_tokens and a capacity that is not negative, exactly
\* the excess is dropped: of the c_i tokens routed to expert i,
\* max(0, c_i - capacity) are dropped and min(c_i, capacity) are processed by
\* expert i; n_dropped is the sum of the excesses; when no expert exceeds
\* capacity nothing is dropped and every token is processed by its argmax
\* expert.
C5_ExactExcess ==
    (pc = "returned" /\ drop_tokens /\ ret.capacity >= 0) => ExactExcess

\* C5's case: an expert exceeds a positive capacity by two or more.
C5_Witness ==
    /\ pc = "returned"
    /\ drop_tokens
    /\ ret.capacity >= 1
    /\ \E i \in Experts : DroppedOf(i) >= 2 /\ Evaluated(i) = ret.capacity

\* C6: the output at position pos depends on the token at pos alone: the
\* scaled input itself when the token was dropped, else the assigned
\* expert's FFN applied to the scaled input of that token.
C6_Output ==
    pc = "returned" =>
        \A pos \in 0..(Len(x) - 1) :
            ret.final_output[pos + 1]
                = IF pos \in Range(ret.dropped)
                  THEN <<"x", -1, ScaledInput(pos)>>
                  ELSE <<"ffn", AssignedExpert(pos), ScaledInput(pos)>>

\* C6's case: probabilities scale the input, the permutation put a later
\* token before an earlier one among the kept, and a token was dropped.
C6_Witness ==
    /\ pc = "returned"
    /\ is_scale_prob
    /\ ret.capacity = 2
    /\ ret.n_dropped >= 1
    /\ \E i \in Experts :
           /\ Evaluated(i) = 2
           /\ ret.indexes_list[i + 1][1] > ret.indexes_list[i + 1][2]

\* capacity_factor * N_tok / n_experts lies strictly between -1 and 1: the
\* capacity of the call is zero.
YieldsZeroCapacity ==
    /\ n_switches >= 1
    /\ capacity_factor * Len(x) < CfDen * n_switches
    /\ capacity_factor * Len(x) > -(CfDen * n_switches)

\* C7: a router with n_experts <= 0, or one whose capacity is zero on a batch
\* of tokens while drop_tokens is on, never returns from a call: it raises
\* at construction or at the call.
C7_FailFast ==
    pc = "returned" =>
        /\ n_switches >= 1
        /\ ~(drop_tokens /\ Len(x) >= 1 /\ YieldsZeroCapacity)

\* C8 as stated: with drop_tokens and a capacity that is zero or negative, no
\* expert's FFN is evaluated on any token and n_dropped is N_tok.
C8_Original ==
    (pc = "returned" /\ drop_tokens /\ ret.capacity <= 0) =>
        /\ \A i \in Experts : Evaluated(i) = 0
        /\ ret.n_dropped = Len(x)

\* C8 amended: with drop_tokens and a capacity factor that yields capacity
\* zero, every token is dropped: no expert's FFN is evaluated on any token and
\* n_dropped is N_tok.
C8_ZeroCapacity ==
    (pc = "returned" /\ drop_tokens /\ YieldsZeroCapacity) =>
        /\ ret.capacity = 0
        /\ \A i \in Experts : Evaluated(i) = 0
        /\ ret.n_dropped = Len(x)
        /\ Range(ret.dropped) = 0..(Len(x) - 1)

\* C8's case: a positive capacity factor, more experts than tokens, and the
\* tokens of two nonempty groups all dropped.
C8_Witness ==
    /\ pc = "returned"
    /\ drop_tokens
    /\ capacity_factor > 0
    /\ ret.capacity = 0
    /\ ret.n_dropped = 2
    /\ \A i \in Experts : RoutedTo(i) = 1 /\ Evaluated(i) = 0

\* C9: a call on an empty batch, n_experts >= 1, does not raise: capacity is
\* zero, nothing is dropped, the counts are zero, and the output is empty with
\* the shape of the input.
C9_EmptyBatch ==
    (pc \in {"returned", "raised"} /\ Len(x) = 0 /\ n_switches >= 1) =>
        /\ pc = "returned"
        /\ ret.capacity = 0
        /\ ret.n_dropped = 0
        /\ ret.counts = [i \in 1..n_switches |-> 0]
        /\ ret.final_output = <<>>
        /\ ret.out_shape = ret.in_shape

\* C9's case: an empty batch of shape (2, 0, d_model) went through a router
\* with drop_tokens and two experts.
C9_Witness ==
    /\ pc = "returned"
    /\ Len(x) = 0
    /\ drop_tokens
    /\ n_switches = 2
    /\ ret.in_shape = <<2, 0>>

C12_MaskCache ==
    gpt_ret # <<>> =>
        LET r == gpt_ret[1]
            rebuilt == r.encoder_mask # r.mask_before
        IN  /\ r.len = Len(gpt_x)
            /\ r.encoder_mask # <<>>
            /\ r.encoder_mask[1].size = r.len
            /\ r.encoder_mask = mask
            /\ rebuilt <=> (r.mask_before = <<>> \/ r.mask_before[1].size # r.len)
            /\ rebuilt => r.encoder_mask[1].id = n_masks
            /\ (r.prev_len = r.len) => ~rebuilt

\* C12's case: after calls with other lengths a call repeats the length of
\* the call before and is given the mask that call created.
C12_Witness ==
    /\ gpt_ret # <<>>
    /\ n_calls >= 3
    /\ n_masks = 2
    /\ gpt_ret[1].prev_len = gpt_ret[1].len
    /\ gpt_ret[1].len = 2
    /\ gpt_ret[1].encoder_mask = gpt_ret[1].mask_before

\* The Parameter objects of the model.
Parameters(mdl) ==
    UNION { { mdl[j].params[q].obj : q \in 1..Len(mdl[j].params) } : j \in 1..Len(mdl) }

\* Some Parameter object is a parameter of two modules.
HasSharedParameter(mdl) ==
    \E j, k \in 1..Len(mdl) :
        /\ j < k
        /\ \E q \in 1..Len(mdl[j].params), r \in 1..Len(mdl[k].params) :
               mdl[j].params[q].obj = mdl[k].params[r].obj

\* The parameter named pn is among the named parameters of a Linear module.
BelongsToLinear(mdl, pn) ==
    \E v \in Visits(mdl) : v.fpn = pn /\ mdl[v.m].kind = "Linear"

\* The names under which param_dict holds the Parameter object obj.
NamesOf(mdl, obj) ==
    { pn \in DOMAIN ParamDict(mdl) : NamedParameters(mdl, 1)[ParamDict(mdl)[pn]].obj = obj }

\* The call has ended.
OptDone == opt_pc \in {"returned", "ValueError", "KeyError"}

\* What C11 says of a call that has ended: ValueError or a return; on return
\* every parameter is in exactly one of the two groups, the groups carry
\* c.weight_decay and 0.0, and a parameter of the decay group is a weight,
\* not a positional encoding, of a Linear module; and ValueError whenever a
\* name is in both sets or a parameter in neither.
Classified ==
    /\ opt_pc \in {"returned", "ValueError"}
    /\ opt_pc = "returned" =>
        /\ Len(opt_groups) = 2
        /\ opt_groups[1].weight_decay = weight_decay
        /\ opt_groups[2].weight_decay = 0
        /\ opt_groups[1].params \cup opt_groups[2].params = Parameters(model)
        /\ opt_groups[1].params \cap opt_groups[2].params = {}
        /\ \A obj \in opt_groups[1].params :
               \E pn \in NamesOf(model, obj) :
                   /\ EndsWith(pn, "weight")
                   /\ ~Find(pn, "positional_encodings")
                   /\ BelongsToLinear(model, pn)
    /\ (decay \cap no_decay # {}
        \/ DOMAIN ParamDict(model) \ (decay \cup no_decay) # {})
           => opt_pc = "ValueError"

\* C11: transformer_optimizer either raises ValueError or returns two groups
\* that partition the model's parameters, the decay group (weight_decay =
\* c.weight_decay) holding only weights of Linear modules that are not
\* positional encodings, the other group having weight_decay 0.0; ValueError
\* is raised whenever a parameter is classified into both sets or into
\* neither.
C11_Classification == OptDone => Classified

\* C11 for the models in which no Parameter object is shared by two modules.
C11_NoSharedParameter == (OptDone /\ ~HasSharedParameter(model)) => Classified

\* A call on such a model of MaxModules modules returns two nonempty groups.
C11_ReturnedWitness ==
    /\ opt_pc = "returned"
    /\ ~HasSharedParameter(model)
    /\ Len(model) = MaxModules
    /\ opt_groups[1].params # {}
    /\ opt_groups[2].params # {}

====
